---- MODULE Spec2Model ----
(***************************************************************************)
(* State-machine model of the astronaut daily schedule (EX-2):             *)
(*   managers/ScheduleManager.ts  (src/unnamed/part_000)                   *)
(*   storage/Storage.ts, models/Task.ts, observers/Observer.ts             *)
(*   factories/TaskFactory.ts, logger/Logger.ts  (src/unnamed/part_002)    *)
(*   the CLI loop                  (src/unnamed/part_001)                  *)
(*                                                                         *)
(* Every async method of ScheduleManager is split at its await points: the *)
(* synchronous prefix runs in the action that starts the call, and each    *)
(* await (Storage.ensureDir, writeFile, rename, Logger.info) is one later  *)
(* step of the same call; getInstance is split in the same way at the      *)
(* awaits of load and Storage.loadTasks.  Times are minutes since          *)
(* midnight, taken from the small range 0..MaxTime.                        *)
(***************************************************************************)
EXTENDS Integers, Sequences, FiniteSets, TLC

\* ------------------------------------------------------------------ bounds
MaxCalls == 5       \* a session issues at most MaxCalls calls of the manager
EditCalls == 3      \* ... at most EditCalls when every text field varies
FailCalls == 3      \* ... at most FailCalls when the file system may fail
ObsCalls == 3       \* ... at most ObsCalls when observers come and go
ViewCalls == 2      \* ... at most ViewCalls when the caller changes listed tasks
LoadCalls == 1      \* ... at most LoadCalls after a start on a stored file
CrashCalls == 3     \* ... at most CrashCalls when the process may be killed
ConcCalls == 3      \* ... at most ConcCalls when calls are not awaited
StartCalls == 1     \* ... at most StartCalls when getInstance is called during the load
MaxStored == 2      \* a tasks.json found at startup holds at most MaxStored tasks
MaxTime == 2        \* startMinutes / endMinutes are drawn from 0..MaxTime
MaxTasks == 3       \* addTask is not started on a schedule of MaxTasks tasks
MaxClock == 2       \* Date.now() takes the values 0..MaxClock
MaxRand == 0        \* Math.floor(Math.random() * 10000) takes 0..MaxRand
MaxFailures == 1    \* number of file-system failures the environment injects
MaxObservers == 2   \* subscribe is not called on a list of MaxObservers

Times == 0 .. MaxTime
Undefined == "<undefined>"
Ids == (0 .. MaxClock) \X (0 .. MaxRand)
Obs == {"o1", "o2"}
Procs == {"c1", "c2"}
FirstProc == "c1"

VARIABLES
  tasks,      \* ScheduleManager.tasks: the in-memory array of Task
  observers,  \* ScheduleManager.observers: the array of subscribed observers
  disk,       \* data/tasks.json and data/tasks.json.tmp
  now,        \* the value Date.now() returns
  calls,      \* per caller: the ScheduleManager method in flight and its position
  failures,  \* file-system failures injected so far
  ncalls,     \* calls of the manager started so far
  view,       \* the array a caller holds from listTasks(): positions of this.tasks
  instance    \* ScheduleManager.instance is set

vars == <<tasks, observers, disk, now, calls, failures, ncalls, view, instance>>

\* ------------------------------------------------------------ models/Task
Task(id, title, startMinutes, endMinutes, priority, description, completed, createdAt) ==
  [id |-> id, title |-> title, description |-> description,
   startMinutes |-> startMinutes, endMinutes |-> endMinutes,
   priority |-> priority, completed |-> completed, createdAt |-> createdAt]

\* getStartHHMM / getEndHHMM: hours and minutes of a minute count
HHMM(mins) == <<mins \div 60, mins % 60>>

getStartHHMM(t) == HHMM(t.startMinutes)

getEndHHMM(t) == HHMM(t.endMinutes)

\* toJSON followed by JSON.stringify, which drops a field whose value is undefined
toJSON(t) ==
  IF t.description = Undefined
  THEN [id |-> t.id, title |-> t.title,
        startMinutes |-> t.startMinutes, endMinutes |-> t.endMinutes,
        priority |-> t.priority, completed |-> t.completed, createdAt |-> t.createdAt]
  ELSE [id |-> t.id, title |-> t.title, description |-> t.description,
        startMinutes |-> t.startMinutes, endMinutes |-> t.endMinutes,
        priority |-> t.priority, completed |-> t.completed, createdAt |-> t.createdAt]

\* JSON.parse followed by Task.fromJSON: a missing field reads as undefined
fromJSON(o) ==
  Task(o.id, o.title, o.startMinutes, o.endMinutes, o.priority,
       IF "description" \in DOMAIN o THEN o.description ELSE Undefined,
       o.completed, o.createdAt)

\* JSON.stringify(tasks.map(t => t.toJSON()))
Stringify(ts) == [i \in 1 .. Len(ts) |-> toJSON(ts[i])]

\* ------------------------------------------------- factories/TaskFactory
\* TaskFactory.create on parsed times: throws unless end > start
createThrows(start, end) == end <= start

\* the id is built from Date.now() and Math.random(); the Task constructor reads
\* Date.now() again for createdAt (created >= clock)
TaskFactory_create(title, start, end, priority, description, clock, rnd, created) ==
  Task(<<clock, rnd>>, title, start, end, priority, description, FALSE, created)

\* --------------------------------------------------------- array helpers
\* Array.prototype.splice(idx, 0, x) with a 0-based idx
SpliceIn(arr, idx, x) ==
  [i \in 1 .. Len(arr) + 1 |->
     IF i <= idx THEN arr[i] ELSE IF i = idx + 1 THEN x ELSE arr[i - 1]]

\* Array.prototype.splice(idx, 1) with a 0-based idx
SpliceOut(arr, idx) ==
  [i \in 1 .. Len(arr) - 1 |-> IF i <= idx THEN arr[i] ELSE arr[i + 1]]

\* Array.prototype.findIndex(t => t.id === id): 0-based, -1 when absent
findIndex(arr, id) ==
  IF \E i \in 1 .. Len(arr) : arr[i].id = id
  THEN (CHOOSE i \in 1 .. Len(arr) :
          /\ arr[i].id = id
          /\ \A j \in 1 .. i - 1 : arr[j].id # id) - 1
  ELSE -1

Range(s) == {s[i] : i \in 1 .. Len(s)}

\* ------------------------------------------------------- ScheduleManager
RECURSIVE bsearch(_, _, _, _)
bsearch(arr, startMinutes, low, high) ==
  IF low < high
  THEN LET mid == (low + high) \div 2
       IN IF arr[mid + 1].startMinutes < startMinutes
          THEN bsearch(arr, startMinutes, mid + 1, high)
          ELSE bsearch(arr, startMinutes, low, mid)
  ELSE low

\* Mutant of findInsertIndex: the comparison of the search turned round
RECURSIVE bsearchFlipped(_, _, _, _)
bsearchFlipped(arr, startMinutes, low, high) ==
  IF low < high
  THEN LET mid == (low + high) \div 2
       IN IF arr[mid + 1].startMinutes > startMinutes
          THEN bsearchFlipped(arr, startMinutes, mid + 1, high)
          ELSE bsearchFlipped(arr, startMinutes, low, mid)
  ELSE low

findInsertIndexFlipped(arr, startMinutes) == bsearchFlipped(arr, startMinutes, 0, Len(arr))

\* ScheduleManager.findInsertIndex over this.tasks (0-based result)
findInsertIndex(arr, startMinutes) == bsearch(arr, startMinutes, 0, Len(arr))

\* ScheduleManager.overlaps
overlaps(aStart, aEnd, bStart, bEnd) == aStart < bEnd /\ bStart < aEnd

\* ScheduleManager.findTaskById: the task, or null
Null == [id |-> <<-1, -1>>]

findTaskById(arr, id) ==
  LET idx == findIndex(arr, id) IN IF idx = -1 THEN Null ELSE arr[idx + 1]

\* ScheduleManager.listTasks: a copy of the array
listTasks == [i \in 1 .. Len(tasks) |-> tasks[i]]

\* --------------------------------------------------------------- messages
\* A message: its fixed text, the title it names and the HH:mm range it names
Msg(text, title, range) == [text |-> text, title |-> title, range |-> range]

NoMsg == Msg("", "", <<>>)

TimeRange(t) == getStartHHMM(t) \o getEndHHMM(t)

Result(success, message) == [success |-> success, message |-> message]

\* ------------------------------------------------- ScheduleManager.notify
\* observers.forEach(o => { try { o.update(msg) } catch {} }); F is the set of
\* observers whose update throws on this broadcast.  delivered lists the
\* observers whose update was invoked, escaped tells whether a throw left notify.
RECURSIVE forEachUpdate(_, _, _, _)
forEachUpdate(list, F, i, delivered) ==
  IF i > Len(list)
  THEN [delivered |-> delivered, escaped |-> FALSE]
  ELSE LET called == Append(delivered, list[i])
       IN IF list[i] \in F
          THEN forEachUpdate(list, F, i + 1, called)   \* thrown, caught, swallowed
          ELSE forEachUpdate(list, F, i + 1, called)

\* Mutant of notify: forEach without the try/catch around o.update(msg)
RECURSIVE forEachUpdateNoCatch(_, _, _, _)
forEachUpdateNoCatch(list, F, i, delivered) ==
  IF i > Len(list)
  THEN [delivered |-> delivered, escaped |-> FALSE]
  ELSE LET called == Append(delivered, list[i])
       IN IF list[i] \in F
          THEN [delivered |-> called, escaped |-> TRUE]
          ELSE forEachUpdateNoCatch(list, F, i + 1, called)

notifyNoCatch(list, F) == forEachUpdateNoCatch(list, F, 1, <<>>)

notify(list, F) == forEachUpdate(list, F, 1, <<>>)

\* ---------------------------------------------------------- call records
NoId == <<-1, -1>>

\* a path of data/ at which there is no file
NoFile == [exists |-> FALSE, intact |-> TRUE, data |-> <<>>]

IdleCall ==
  [op |-> "none", pc |-> "idle", id |-> NoId,
   result |-> Result(FALSE, NoMsg),   \* what the method returns when it gets there
   note |-> NoMsg,                    \* notification to broadcast after Logger.info
   data |-> <<>>,                     \* the JSON text built by saveTasks
   outcome |-> "none",                \* "returned", or "thrown" (promise rejected)
   saved |-> FALSE,                   \* this call's rename has completed
   sent |-> NoMsg,                    \* the message this call broadcast
   audience |-> <<>>,                 \* the observers array at the broadcast
   delivered |-> <<>>,                \* observers whose update was invoked
   threw |-> {},                      \* observers whose update threw
   fd |-> "none",                     \* where the file opened by writeFile now is
   live |-> TRUE,                     \* the array given to saveTasks is this.tasks
   held |-> <<>>,                     \* that array, once this.tasks is another one:
                                      \* per element the position of the same Task
                                      \* object in this.tasks (at), or the object
                                      \* itself (obj, at = 0) when it is not there
   loaded |-> <<>>,                   \* what Storage.loadTasks returned
   caught |-> FALSE]                  \* loadTasks caught an error and returned []

Idle(p) == calls[p].pc \in {"idle", "done"}

\* One caller that awaits each call before it starts the next (the CLI has one
\* command in progress at a time when the user waits for the prompt).
OneAtATime(p) == p = FirstProc /\ \A q \in Procs : Idle(q)

\* the record of a call after a broadcast of msg to the current observers
Broadcast(c, msg, F) ==
  LET n == notify(observers, F)
  IN [c EXCEPT !.sent = msg, !.audience = observers,
               !.delivered = @ \o n.delivered, !.threw = F \cap Range(observers),
               !.pc = IF n.escaped THEN "done" ELSE @,
               !.outcome = IF n.escaped THEN "thrown" ELSE @]

Init ==
  /\ tasks = <<>>
  /\ observers = <<>>
  /\ disk = [file |-> [exists |-> TRUE, intact |-> TRUE, data |-> <<>>], tmp |-> NoFile]
  /\ now = 0
  /\ calls = [p \in Procs |-> IdleCall]
  /\ failures = 0
  /\ ncalls = 0
  /\ view = <<>>
  /\ instance = TRUE

\* Date.now() advances
Tick ==
  /\ now < MaxClock
  /\ now' = now + 1
  /\ UNCHANGED <<tasks, observers, disk, calls, failures, ncalls, view, instance>>

\* ------------------------------------- arrays held by pending saveTasks
\* saveTasks(this.tasks) keeps the array it was given until JSON.stringify
PendingSave(c) ==
  c.op \notin {"getInstance", "load"} /\ c.pc \in {"ensureOpen", "ensureWrite", "stringify"}

\* where the object at position k of this.tasks is after splice(idx, 0, x) and
\* after splice(idx, 1) (0-based idx; 0: no longer in this.tasks)
InsertedAt(idx, k) == IF k <= idx THEN k ELSE k + 1

RemovedAt(idx, k) == IF k = idx + 1 THEN 0 ELSE IF k <= idx THEN k ELSE k - 1

\* the array a call holds as it is now: a Task object that is also in this.tasks
\* has the field values it has there (markCompleted sets completed in place)
HeldArray(c) ==
  [i \in 1 .. Len(c.held) |->
     IF c.held[i].at = 0 THEN c.held[i].obj ELSE tasks[c.held[i].at]]

\* a held array after this.tasks has changed, pos[k] being the new position of
\* the object that was at k
Rehold(c, pos) ==
  IF PendingSave(c) /\ ~c.live
  THEN [c EXCEPT !.held =
          [i \in 1 .. Len(c.held) |->
             IF c.held[i].at = 0 THEN c.held[i]
             ELSE IF pos[c.held[i].at] = 0
             THEN [obj |-> tasks[c.held[i].at], at |-> 0]
             ELSE [obj |-> Null, at |-> pos[c.held[i].at]]]]
  ELSE c

\* a call that has handed this.tasks to Storage.saveTasks and not yet read it keeps
\* the old array when editTask or load assigns a new one to this.tasks; the
\* new array has the same Task objects at pos[k], or not at all
Detached(c, pos) ==
  IF PendingSave(c) /\ c.live
  THEN [c EXCEPT !.live = FALSE,
                 !.held = [k \in 1 .. Len(tasks) |->
                             IF pos[k] = 0 THEN [obj |-> tasks[k], at |-> 0]
                             ELSE [obj |-> Null, at |-> pos[k]]]]
  ELSE Rehold(c, pos)

\* ------------------------------------------------------ Storage.ensureDir
\* tasks.json as the open of writeFile leaves it: there, with no text yet
EmptyFile == [exists |-> TRUE, intact |-> FALSE, data |-> <<>>]

\* Storage.ensureDir inside the call that reaches it: existsSync(TASKS_FILE);
\* with the file there it returns and the caller's continuation, found, is a
\* microtask; with the file missing writeFile(TASKS_FILE, '[]') begins
EnsureDirPc(found) == IF disk.file.exists THEN found ELSE "ensureOpen"

\* what follows ensureDir in its caller: readFile in loadTasks, JSON.stringify
\* in saveTasks
EnsureDirResolved(c) ==
  [c EXCEPT !.pc = IF c.op \in {"getInstance", "load"} THEN "readFile" ELSE "stringify"]

\* ensureDir rejects: loadTasks catches and returns [], saveTasks rejects and
\* so does the method that awaits it
EnsureDirRejected(c) ==
  IF c.op \in {"getInstance", "load"}
  THEN [c EXCEPT !.pc = "sort", !.loaded = <<>>, !.caught = TRUE]
  ELSE [c EXCEPT !.pc = "done", !.outcome = "thrown"]

\* ------------------------------------------------ ScheduleManager.addTask
\* lines 60-82 and 85: the insertion index, the two neighbour checks, the splice
addTaskSync(arr, task) ==
  LET idx == findInsertIndex(arr, task.startMinutes)
      prev == arr[idx]
      next == arr[idx + 1]
  IN IF idx - 1 >= 0 /\ overlaps(prev.startMinutes, prev.endMinutes,
                                 task.startMinutes, task.endMinutes)
     THEN [conflict |-> TRUE, neighbor |-> prev, tasks |-> arr]
     ELSE IF idx < Len(arr) /\ overlaps(next.startMinutes, next.endMinutes,
                                        task.startMinutes, task.endMinutes)
     THEN [conflict |-> TRUE, neighbor |-> next, tasks |-> arr]
     ELSE [conflict |-> FALSE, neighbor |-> task, tasks |-> SpliceIn(arr, idx, task)]

AddConflictMsg(nb) == Msg("Task conflicts with existing task", nb.title, TimeRange(nb))

\* addTask up to its first await: on a conflict notify, then await Logger.info;
\* otherwise splice and enter Storage.saveTasks up to the await of ensureDir
AddTask(p, task) ==
  /\ Idle(p)
  /\ Len(tasks) < MaxTasks
  /\ LET r == addTaskSync(tasks, task)
         c == [IdleCall EXCEPT !.op = "addTask", !.id = task.id]
     IN IF r.conflict
        THEN /\ tasks' = tasks
             /\ \E F \in SUBSET Range(observers) :
                  calls' = [calls EXCEPT ![p] =
                    Broadcast([c EXCEPT !.pc = "log",
                                        !.result = Result(FALSE, AddConflictMsg(r.neighbor))],
                              AddConflictMsg(r.neighbor), F)]
        ELSE /\ tasks' = r.tasks
             /\ calls' = [q \in Procs |->
                  IF q # p
                  THEN Rehold(calls[q], [k \in 1 .. Len(tasks) |->
                                InsertedAt(findInsertIndex(tasks, task.startMinutes), k)])
                  ELSE [c EXCEPT !.pc = EnsureDirPc("stringify"),
                                 !.result = Result(TRUE, Msg("Task added successfully.", "", <<>>)),
                                 !.note = Msg("Task added", task.title, TimeRange(task))]]
  /\ UNCHANGED <<observers, disk, now, failures, instance>>

\* ----------------------------------------------------- Storage.saveTasks
\* A continuation behind `await Storage.ensureDir()` is a microtask, and so is
\* the continuation of load behind the return of loadTasks: they run before any
\* completion of file-system work is delivered to any call.
NoMicrotask == \A q \in Procs : calls[q].pc \notin {"stringify", "ensureDir", "sort"}

\* writeFile(TASKS_FILE, '[]') opens tasks.json with flag 'w': the file is
\* created, or truncated when another call has made it in the meantime
EnsureDirOpen(p) ==
  /\ calls[p].pc = "ensureOpen"
  /\ NoMicrotask
  /\ disk' = [disk EXCEPT !.file = EmptyFile]
  /\ calls' = [calls EXCEPT ![p].pc = "ensureWrite", ![p].fd = "file"]
  /\ UNCHANGED <<tasks, observers, now, failures, ncalls, view, instance>>

\* the open rejects (ENOTDIR, EIO, or mkdirSync threw): nothing is created
EnsureDirOpenFail(p) ==
  /\ calls[p].pc = "ensureOpen"
  /\ NoMicrotask
  /\ failures < MaxFailures
  /\ failures' = failures + 1
  /\ calls' = [calls EXCEPT ![p] = EnsureDirRejected(calls[p])]
  /\ UNCHANGED <<tasks, observers, disk, now, ncalls, view, instance>>

\* writeFile writes '[]' through its descriptor and closes it; the descriptor
\* names the file the call opened ("gone": replaced by a rename since)
EnsureDirWrite(p) ==
  /\ calls[p].pc = "ensureWrite"
  /\ NoMicrotask
  /\ disk' = IF calls[p].fd = "gone"
             THEN disk
             ELSE [disk EXCEPT !.file = [exists |-> TRUE, intact |-> TRUE, data |-> <<>>]]
  /\ calls' = [calls EXCEPT ![p] = EnsureDirResolved(calls[p])]
  /\ UNCHANGED <<tasks, observers, now, failures, ncalls, view, instance>>

\* the write rejects (EFBIG, ENOSPC): tasks.json stays as the open left it
EnsureDirWriteFail(p) ==
  /\ calls[p].pc = "ensureWrite"
  /\ NoMicrotask
  /\ failures < MaxFailures
  /\ failures' = failures + 1
  /\ calls' = [calls EXCEPT ![p] = EnsureDirRejected(calls[p])]
  /\ UNCHANGED <<tasks, observers, disk, now, ncalls, view, instance>>

\* after `await Storage.ensureDir()`: JSON.stringify of the array that was
\* passed to saveTasks, then fs.promises.writeFile(tmp, data) begins
SaveStringify(p) ==
  /\ calls[p].pc = "stringify"
  /\ calls' = [calls EXCEPT ![p].pc = "open",
                            ![p].held = <<>>,
                            ![p].data = Stringify(IF calls[p].live THEN tasks
                                                  ELSE HeldArray(calls[p]))]
  /\ UNCHANGED <<tasks, observers, disk, now, failures, ncalls, view, instance>>

\* writeFile opens tasks.json.tmp with flag 'w': the file is created or truncated
SaveOpenTmp(p) ==
  /\ calls[p].pc = "open"
  /\ NoMicrotask
  /\ disk' = [disk EXCEPT !.tmp = [exists |-> TRUE, intact |-> FALSE, data |-> <<>>]]
  /\ calls' = [calls EXCEPT ![p].pc = "write", ![p].fd = "tmp"]
  /\ UNCHANGED <<tasks, observers, now, failures, ncalls, view, instance>>

\* the open rejects: nothing is created
SaveOpenTmpFail(p) ==
  /\ calls[p].pc = "open"
  /\ NoMicrotask
  /\ failures < MaxFailures
  /\ failures' = failures + 1
  /\ calls' = [calls EXCEPT ![p].pc = "done", ![p].outcome = "thrown"]
  /\ UNCHANGED <<tasks, observers, disk, now, ncalls, view, instance>>

\* writeFile writes the text through its descriptor and closes it.  The
\* descriptor names the file the call opened, wherever a rename has moved it
\* ("gone": replaced by a later rename).  Written over a complete text that
\* another call wrote there since the truncation, the result is this call's text
\* or a mixture of the two.
SaveWriteTmp(p) ==
  /\ calls[p].pc = "write"
  /\ NoMicrotask
  /\ IF calls[p].fd = "gone"
     THEN disk' = disk
     ELSE LET target == disk[calls[p].fd]
              whole == [exists |-> TRUE, intact |-> TRUE, data |-> calls[p].data]
              mixed == [exists |-> TRUE, intact |-> FALSE, data |-> <<>>]
          IN IF target.intact /\ target.data # calls[p].data
             THEN \E garbled \in BOOLEAN :
                    disk' = [disk EXCEPT ![calls[p].fd] = IF garbled THEN mixed ELSE whole]
             ELSE disk' = [disk EXCEPT ![calls[p].fd] = whole]
  /\ calls' = [calls EXCEPT ![p].pc = "rename"]
  /\ UNCHANGED <<tasks, observers, now, failures, ncalls, view, instance>>

\* the write rejects: the file is left as it was or partly written
SaveWriteTmpFail(p) ==
  /\ calls[p].pc = "write"
  /\ NoMicrotask
  /\ failures < MaxFailures
  /\ failures' = failures + 1
  /\ \E partial \in BOOLEAN :
       disk' = IF partial /\ calls[p].fd # "gone"
               THEN [disk EXCEPT ![calls[p].fd] =
                       [exists |-> TRUE, intact |-> FALSE, data |-> <<>>]]
               ELSE disk
  /\ calls' = [calls EXCEPT ![p].pc = "done", ![p].outcome = "thrown"]
  /\ UNCHANGED <<tasks, observers, now, ncalls, view, instance>>

\* a descriptor another call holds, after a rename of tasks.json.tmp onto tasks.json
Renamed(c) ==
  IF c.pc \in {"write", "ensureWrite"}
  THEN [c EXCEPT !.fd = IF @ = "tmp" THEN "file" ELSE "gone"]
  ELSE c

\* fs.promises.rename(tmp, TASKS_FILE) completes; then Logger.info is awaited
SaveRename(p) ==
  /\ calls[p].pc = "rename"
  /\ NoMicrotask
  /\ disk.tmp.exists
  /\ disk' = [file |-> disk.tmp, tmp |-> NoFile]
  /\ calls' = [q \in Procs |->
                 IF q = p
                 THEN [calls[p] EXCEPT !.pc = "log", !.saved = TRUE]
                 ELSE Renamed(calls[q])]
  /\ UNCHANGED <<tasks, observers, now, failures, ncalls, view, instance>>

\* fs.promises.rename rejects: both files stay as they are
SaveRenameFail(p) ==
  /\ calls[p].pc = "rename"
  /\ NoMicrotask
  /\ failures < MaxFailures
  /\ failures' = failures + 1
  /\ calls' = [calls EXCEPT ![p].pc = "done", ![p].outcome = "thrown"]
  /\ UNCHANGED <<tasks, observers, disk, now, ncalls, view, instance>>

\* fs.promises.rename rejects with ENOENT: tasks.json.tmp is not there
SaveRenameMissing(p) ==
  /\ calls[p].pc = "rename"
  /\ NoMicrotask
  /\ ~disk.tmp.exists
  /\ calls' = [calls EXCEPT ![p].pc = "done", ![p].outcome = "thrown"]
  /\ UNCHANGED <<tasks, observers, disk, now, failures, ncalls, view, instance>>

\* after `await Logger.info(...)` (Logger.append catches its own errors): the
\* pending notify, if any, then the return
LogDone(p) ==
  /\ calls[p].pc = "log"
  /\ NoMicrotask
  /\ LET c == [calls[p] EXCEPT !.pc = "done", !.outcome = "returned", !.note = NoMsg]
     IN IF calls[p].note = NoMsg
        THEN calls' = [calls EXCEPT ![p] = c]
        ELSE \E F \in SUBSET Range(observers) :
               calls' = [calls EXCEPT ![p] = Broadcast(c, calls[p].note, F)]
  /\ UNCHANGED <<tasks, observers, disk, now, failures, ncalls, view, instance>>

\* ----------------------------------------- ScheduleManager.removeTaskById
RemovedMsg(t) == Msg("Task removed", t.title, <<>>)

\* Mutant of removeTaskByIdSync: the idx === -1 test left out, so that
\* splice(-1, 1) removes the last task
removeTaskByIdUnguarded(arr, id) ==
  LET idx == findIndex(arr, id)
  IN IF idx = -1
     THEN IF Len(arr) = 0
          THEN [found |-> FALSE, removed |-> Null, tasks |-> arr]
          ELSE [found |-> TRUE, removed |-> arr[Len(arr)],
                tasks |-> SpliceOut(arr, Len(arr) - 1)]
     ELSE [found |-> TRUE, removed |-> arr[idx + 1], tasks |-> SpliceOut(arr, idx)]

\* lines 112-118: findIndex, the not-found test, splice(idx, 1)
removeTaskByIdSync(arr, id) ==
  LET idx == findIndex(arr, id)
  IN IF idx = -1
     THEN [found |-> FALSE, removed |-> Null, tasks |-> arr]
     ELSE [found |-> TRUE, removed |-> arr[idx + 1], tasks |-> SpliceOut(arr, idx)]

RemoveTaskById(p, id) ==
  /\ Idle(p)
  /\ LET r == removeTaskByIdSync(tasks, id)
         c == [IdleCall EXCEPT !.op = "removeTaskById", !.id = id]
     IN /\ tasks' = r.tasks
        /\ calls' = [q \in Procs |->
             IF q # p
             THEN IF r.found
                  THEN Rehold(calls[q], [k \in 1 .. Len(tasks) |-> RemovedAt(findIndex(tasks, id), k)])
                  ELSE calls[q]
             ELSE IF ~r.found
             THEN [c EXCEPT !.pc = "log",
                            !.result = Result(FALSE, Msg("Error: Task not found.", "", <<>>))]
             ELSE [c EXCEPT !.pc = EnsureDirPc("stringify"),
                            !.result = Result(TRUE, Msg("Task removed successfully.", "", <<>>)),
                            !.note = RemovedMsg(r.removed)]]
  /\ UNCHANGED <<observers, disk, now, failures, instance>>

\* ----------------------------------------------- ScheduleManager.editTask
\* updates: a record of the five optional overrides; Absent / NoTime stand for
\* a field that is undefined in the object passed
Absent == "<absent>"
NoTime == -1

Updates(title, startMinutes, endMinutes, priority, description) ==
  [title |-> title, startMinutes |-> startMinutes, endMinutes |-> endMinutes,
   priority |-> priority, description |-> description]

\* Mutant of updatedTask: completed and createdAt not passed on, so that the
\* constructor's defaults (false, Date.now()) apply
updatedTaskDefaults(original, updates) ==
  Task(original.id,
       IF updates.title # Absent THEN updates.title ELSE original.title,
       IF updates.startMinutes # NoTime THEN updates.startMinutes ELSE original.startMinutes,
       IF updates.endMinutes # NoTime THEN updates.endMinutes ELSE original.endMinutes,
       IF updates.priority # Absent THEN updates.priority ELSE original.priority,
       IF updates.description # Absent THEN updates.description ELSE original.description,
       FALSE,
       now)

\* lines 130-139: new Task(original.id, updates.x ?? original.x, ..., completed, createdAt)
updatedTask(original, updates) ==
  Task(original.id,
       IF updates.title # Absent THEN updates.title ELSE original.title,
       IF updates.startMinutes # NoTime THEN updates.startMinutes ELSE original.startMinutes,
       IF updates.endMinutes # NoTime THEN updates.endMinutes ELSE original.endMinutes,
       IF updates.priority # Absent THEN updates.priority ELSE original.priority,
       IF updates.description # Absent THEN updates.description ELSE original.description,
       original.completed,
       original.createdAt)

\* lines 146-155: the binary search written out again inside editTask
RECURSIVE editBsearch(_, _, _, _)
editBsearch(arr, startMinutes, low, high) ==
  IF low < high
  THEN LET mid == (low + high) \div 2
       IN IF arr[mid + 1].startMinutes < startMinutes
          THEN editBsearch(arr, startMinutes, mid + 1, high)
          ELSE editBsearch(arr, startMinutes, low, mid)
  ELSE low

\* Mutant of editTaskSync: the original spliced out of this.tasks itself, not
\* out of a copy, so that a conflict leaves it removed
editTaskSyncInPlace(ts, id, updates) ==
  LET idx == findIndex(ts, id)
  IN IF idx = -1
     THEN [status |-> "notfound", neighbor |-> Null, tasks |-> ts]
     ELSE LET original == ts[idx + 1]
              updated == updatedTask(original, updates)
              arr == SpliceOut(ts, idx)
              insertIdx == editBsearch(arr, updated.startMinutes, 0, Len(arr))
              prev == arr[insertIdx]
              next == arr[insertIdx + 1]
          IN IF insertIdx - 1 >= 0 /\ overlaps(prev.startMinutes, prev.endMinutes,
                                               updated.startMinutes, updated.endMinutes)
             THEN [status |-> "conflict", neighbor |-> prev, tasks |-> arr]
             ELSE IF insertIdx < Len(arr) /\ overlaps(next.startMinutes, next.endMinutes,
                                                      updated.startMinutes, updated.endMinutes)
             THEN [status |-> "conflict", neighbor |-> next, tasks |-> arr]
             ELSE [status |-> "ok", neighbor |-> updated, insertIdx |-> insertIdx,
                   tasks |-> SpliceIn(arr, insertIdx, updated)]

\* lines 126-179: find, build the copy, remove the original from a copy of the
\* array, search, check the two neighbours, insert
editTaskSync(ts, id, updates) ==
  LET idx == findIndex(ts, id)
  IN IF idx = -1
     THEN [status |-> "notfound", neighbor |-> Null, tasks |-> ts]
     ELSE LET original == ts[idx + 1]
              updated == updatedTask(original, updates)
              arr == SpliceOut(ts, idx)
              insertIdx == editBsearch(arr, updated.startMinutes, 0, Len(arr))
              prev == arr[insertIdx]
              next == arr[insertIdx + 1]
          IN IF insertIdx - 1 >= 0 /\ overlaps(prev.startMinutes, prev.endMinutes,
                                               updated.startMinutes, updated.endMinutes)
             THEN [status |-> "conflict", neighbor |-> prev, tasks |-> ts]
             ELSE IF insertIdx < Len(arr) /\ overlaps(next.startMinutes, next.endMinutes,
                                                      updated.startMinutes, updated.endMinutes)
             THEN [status |-> "conflict", neighbor |-> next, tasks |-> ts]
             ELSE [status |-> "ok", neighbor |-> updated, insertIdx |-> insertIdx,
                   tasks |-> SpliceIn(arr, insertIdx, updated)]

EditConflictMsg(nb) == Msg("Edit conflicts with existing task", nb.title, <<>>)

EditTask(p, id, updates) ==
  /\ Idle(p)
  /\ LET r == editTaskSync(tasks, id, updates)
         c == [IdleCall EXCEPT !.op = "editTask", !.id = id]
     IN /\ tasks' = r.tasks
        /\ calls' = [q \in Procs |->
             IF q # p
             THEN IF r.status = "ok"
                  THEN Detached(calls[q], [k \in 1 .. Len(tasks) |->
                         IF RemovedAt(findIndex(tasks, id), k) = 0 THEN 0
                         ELSE InsertedAt(r.insertIdx, RemovedAt(findIndex(tasks, id), k))])
                  ELSE calls[q]
             ELSE CASE r.status = "notfound" ->
                         [c EXCEPT !.pc = "done", !.outcome = "returned",
                                   !.result = Result(FALSE, Msg("Task not found.", "", <<>>))]
                    [] r.status = "conflict" ->
                         [c EXCEPT !.pc = "log",
                                   !.result = Result(FALSE, EditConflictMsg(r.neighbor)),
                                   !.note = EditConflictMsg(r.neighbor)]
                    [] OTHER ->
                         [c EXCEPT !.pc = EnsureDirPc("stringify"),
                                   !.result = Result(TRUE, Msg("Task edited successfully.", "", <<>>)),
                                   !.note = Msg("Task edited", r.neighbor.title, <<>>)]]
  /\ UNCHANGED <<observers, disk, now, failures, instance>>

\* ------------------------------------------ ScheduleManager.markCompleted
\* Mutant of markCompletedSync: the flag flipped (t.completed = !t.completed)
markCompletedSyncToggle(ts, id) ==
  LET idx == findIndex(ts, id)
  IN IF idx = -1 THEN ts ELSE [ts EXCEPT ![idx + 1].completed = ~@]

\* lines 187-189: tasks.find(x => x.id === id), then t.completed = true in place
markCompletedSync(ts, id) ==
  LET idx == findIndex(ts, id)
  IN IF idx = -1 THEN ts ELSE [ts EXCEPT ![idx + 1].completed = TRUE]

\* Mutant of MarkCompleted: Storage.saveTasks not awaited (and its write never
\* seen to complete): the method goes on to Logger.info and returns
MarkCompletedNoAwait(p, id) ==
  /\ Idle(p)
  /\ LET idx == findIndex(tasks, id)
         c == [IdleCall EXCEPT !.op = "markCompleted", !.id = id]
     IN /\ tasks' = markCompletedSync(tasks, id)
        /\ calls' = [calls EXCEPT ![p] =
             IF idx = -1
             THEN [c EXCEPT !.pc = "done", !.outcome = "returned",
                            !.result = Result(FALSE, Msg("Task not found.", "", <<>>))]
             ELSE [c EXCEPT !.pc = "log",
                            !.result = Result(TRUE, Msg("Task marked as completed.", "", <<>>)),
                            !.note = Msg("Task completed", tasks[idx + 1].title, <<>>)]]
  /\ UNCHANGED <<observers, disk, now, failures, instance>>

MarkCompleted(p, id) ==
  /\ Idle(p)
  /\ LET idx == findIndex(tasks, id)
         c == [IdleCall EXCEPT !.op = "markCompleted", !.id = id]
     IN /\ tasks' = markCompletedSync(tasks, id)
        /\ calls' = [calls EXCEPT ![p] =
             IF idx = -1
             THEN [c EXCEPT !.pc = "done", !.outcome = "returned",
                            !.result = Result(FALSE, Msg("Task not found.", "", <<>>))]
             ELSE [c EXCEPT !.pc = EnsureDirPc("stringify"),
                            !.result = Result(TRUE, Msg("Task marked as completed.", "", <<>>)),
                            !.note = Msg("Task completed", tasks[idx + 1].title, <<>>)]]
  /\ UNCHANGED <<observers, disk, now, failures, instance>>

\* ------------------------------------------------ subscribe / unsubscribe
Subscribe(o) ==
  /\ Len(observers) < MaxObservers
  /\ observers' = Append(observers, o)
  /\ UNCHANGED <<tasks, disk, now, calls, failures, ncalls, view, instance>>

Unsubscribe(o) ==
  /\ observers' = SelectSeq(observers, LAMBDA x : x # o)
  /\ UNCHANGED <<tasks, disk, now, calls, failures, ncalls, view, instance>>

\* ------------------------------------------- getInstance / load / loadTasks
\* Mutant of sortByStart: the loaded array taken as it is, without the sort
sortByStartNone(arr) == arr

\* arr.sort((a, b) => a.startMinutes - b.startMinutes): Array.prototype.sort is
\* stable, so tasks with equal startMinutes keep their order
sortByStart(arr) ==
  LET before(i, j) == \/ arr[i].startMinutes < arr[j].startMinutes
                      \/ arr[i].startMinutes = arr[j].startMinutes /\ i < j
      rank(i) == 1 + Cardinality({j \in 1 .. Len(arr) : before(j, i)})
  IN [k \in 1 .. Len(arr) |-> arr[CHOOSE i \in 1 .. Len(arr) : rank(i) = k]]

\* getInstance: with no instance yet, new ScheduleManager() and the start of
\* load (Storage.loadTasks, Storage.ensureDir); otherwise the instance as it is
GetInstance(p) ==
  /\ \A q \in Procs : Idle(q)
  /\ p = FirstProc
  /\ IF instance
     THEN /\ calls' = [calls EXCEPT ![p] =
                [IdleCall EXCEPT !.op = "getInstance", !.pc = "done", !.outcome = "returned"]]
          /\ UNCHANGED <<tasks, observers, instance>>
     ELSE /\ instance' = TRUE
          /\ tasks' = <<>>
          /\ observers' = <<>>
          /\ calls' = [calls EXCEPT ![p] =
                [IdleCall EXCEPT !.op = "getInstance", !.pc = EnsureDirPc("ensureDir")]]
  /\ view' = <<>>
  /\ UNCHANGED <<disk, now, failures, ncalls>>

\* after `await Storage.ensureDir()` in loadTasks, tasks.json found there:
\* fs.promises.readFile(TASKS_FILE) begins
LoadEnsureDir(p) ==
  /\ calls[p].pc = "ensureDir"
  /\ calls' = [calls EXCEPT ![p].pc = "readFile"]
  /\ UNCHANGED <<tasks, observers, disk, now, failures, ncalls, view, instance>>

\* manager.load() called on the instance (load is a public method):
\* Storage.loadTasks and its ensureDir begin
Load(p) ==
  /\ instance
  /\ Idle(p)
  /\ calls' = [calls EXCEPT ![p] =
        [IdleCall EXCEPT !.op = "load", !.pc = EnsureDirPc("ensureDir")]]
  /\ UNCHANGED <<tasks, observers, disk, now, failures, instance>>

\* fs.promises.readFile reads tasks.json in the thread pool: the text is the one
\* the file holds at that moment; JSON.parse and map(Task.fromJSON) of it give
\* the tasks, and a text that does not parse to an array of task objects
\* throws, which loadTasks catches to return []
LoadReadFile(p) ==
  /\ calls[p].pc = "readFile"
  /\ calls' = [calls EXCEPT ![p].pc = "readDone",
                            ![p].caught = ~disk.file.intact,
                            ![p].loaded = IF disk.file.intact
                                          THEN [i \in 1 .. Len(disk.file.data) |->
                                                  fromJSON(disk.file.data[i])]
                                          ELSE <<>>]
  /\ UNCHANGED <<tasks, observers, disk, now, failures, ncalls, view, instance>>

\* the promise of readFile resolves, later than the read: completions of other
\* calls may have been delivered in between; loadTasks returns
LoadReadResolved(p) ==
  /\ calls[p].pc = "readDone"
  /\ NoMicrotask
  /\ calls' = [calls EXCEPT ![p].pc = "sort"]
  /\ UNCHANGED <<tasks, observers, disk, now, failures, ncalls, view, instance>>

\* readFile rejects: loadTasks catches and returns []
LoadReadFileFail(p) ==
  /\ calls[p].pc = "readFile"
  /\ NoMicrotask
  /\ failures < MaxFailures
  /\ failures' = failures + 1
  /\ calls' = [calls EXCEPT ![p].pc = "sort", ![p].loaded = <<>>, ![p].caught = TRUE]
  /\ UNCHANGED <<tasks, observers, disk, now, ncalls, view, instance>>

\* load after `await Storage.loadTasks()`: this.tasks = arr.sort(...), then
\* Logger.info is awaited
LoadSort(p) ==
  /\ calls[p].pc = "sort"
  /\ tasks' = sortByStart(calls[p].loaded)
  /\ calls' = [q \in Procs |->
                 IF q = p THEN [calls[p] EXCEPT !.pc = "loaded"]
                 ELSE Detached(calls[q], [k \in 1 .. Len(tasks) |-> 0])]
  /\ UNCHANGED <<observers, disk, now, failures, ncalls, view, instance>>

\* load returns (and getInstance returns the instance)
LoadDone(p) ==
  /\ calls[p].pc = "loaded"
  /\ NoMicrotask
  /\ calls' = [calls EXCEPT ![p].pc = "done", ![p].outcome = "returned"]
  /\ UNCHANGED <<tasks, observers, disk, now, failures, ncalls, view, instance>>

\* the load of an earlier getInstance has not returned yet
Loading(q) ==
  calls[q].op = "getInstance" /\ calls[q].pc \in {"ensureDir", "ensureOpen", "ensureWrite", "readFile", "readDone", "sort", "loaded"}

\* that load waits for the file system: for the writeFile of '[]', for readFile
\* or for the appendFile of Logger.info
LoadAwaitsIO(q) ==
  /\ calls[q].op = "getInstance"
  /\ calls[q].pc \in {"ensureOpen", "ensureWrite", "readFile", "readDone", "loaded"}

\* getInstance called while an earlier getInstance awaits load(): the static
\* field was assigned before that await, so the `if` is skipped and the
\* instance is returned as it is
GetInstanceDuringLoad(p) ==
  /\ instance
  /\ calls[p].pc = "idle"
  /\ \E q \in Procs \ {p} : Loading(q)
  /\ calls' = [calls EXCEPT ![p] =
        [IdleCall EXCEPT !.op = "getInstance", !.pc = "done", !.outcome = "returned"]]
  /\ view' = <<>>
  /\ UNCHANGED <<tasks, observers, disk, now, failures, ncalls, instance>>

\* the process is killed: the manager and every call in progress are gone, the
\* files stay as the completed file-system steps left them
Crash ==
  /\ instance
  /\ instance' = FALSE
  /\ tasks' = <<>>
  /\ observers' = <<>>
  /\ calls' = [p \in Procs |-> IdleCall]
  /\ view' = <<>>
  /\ UNCHANGED <<disk, now, failures, ncalls>>

\* ------------------------------------------------------ listTasks callers
\* const list = manager.listTasks(): [...this.tasks] is a new array whose
\* elements are the Task objects of this.tasks; view[i] is the position in
\* this.tasks of the object at list[i]
ListTasks ==
  /\ \A p \in Procs : Idle(p)
  /\ view' = [i \in 1 .. Len(listTasks) |-> i]
  /\ UNCHANGED <<tasks, observers, disk, now, calls, failures, ncalls, instance>>

\* list.splice(i, 1) on the returned array
ViewRemove(i) ==
  /\ \A p \in Procs : Idle(p)
  /\ view' = SpliceOut(view, i - 1)
  /\ UNCHANGED <<tasks, observers, disk, now, calls, failures, ncalls, instance>>

\* list.reverse() on the returned array
ViewReverse ==
  /\ \A p \in Procs : Idle(p)
  /\ Len(view) >= 2
  /\ view' = [i \in 1 .. Len(view) |-> view[Len(view) + 1 - i]]
  /\ UNCHANGED <<tasks, observers, disk, now, calls, failures, ncalls, instance>>

\* list[i].startMinutes = v: an assignment to a public field of the Task object
ViewSetStart(i, v) ==
  /\ \A p \in Procs : Idle(p)
  /\ tasks' = [tasks EXCEPT ![view[i]].startMinutes = v]
  /\ UNCHANGED <<observers, disk, now, calls, failures, ncalls, view, instance>>

\* list[i].endMinutes = v
ViewSetEnd(i, v) ==
  /\ \A p \in Procs : Idle(p)
  /\ tasks' = [tasks EXCEPT ![view[i]].endMinutes = v]
  /\ UNCHANGED <<observers, disk, now, calls, failures, ncalls, view, instance>>

\* ------------------------------------------------------------- the inputs
\* the tasks TaskFactory.create can return at this moment, its id built at this
\* or at an earlier reading of the clock; callers type the title "A", the
\* priority "low" and a description that ask() gives as a string: '' when the
\* line is left empty
NewTasks(P) ==
  {TaskFactory_create("A", start, end, "Low", description, clock, rnd, now) :
     start \in Times, end \in Times, description \in P.newDescriptions,
     clock \in 0 .. now, rnd \in 0 .. MaxRand}

\* what a caller of editTask gives for title, priority and description: nothing
\* (PlainTexts), or nothing or one new value (RichTexts); and the descriptions
\* given to TaskFactory.create
PlainTexts ==
  [titles |-> {Absent}, priorities |-> {Absent}, descriptions |-> {Absent},
   newDescriptions |-> {""}]

RichTexts ==
  [titles |-> {Absent, "B"}, priorities |-> {Absent, "High"}, descriptions |-> {Absent, "d"},
   newDescriptions |-> {"", "d"}]

\* the updates objects callers pass to editTask
UpdateSet(P) ==
  {Updates(title, start, end, priority, description) :
     title \in P.titles,
     start \in Times \cup {NoTime}, end \in Times \cup {NoTime},
     priority \in P.priorities,
     description \in P.descriptions}

\* the tasks a tasks.json found at startup may hold, and the lists of them
StoredTasks ==
  {Task(<<clock, 0>>, "A", start, end, "Low", Undefined, FALSE, clock) :
     clock \in 0 .. MaxClock, start \in Times, end \in Times}

StoredLists ==
  UNION {[1 .. n -> StoredTasks] : n \in 0 .. MaxStored}

\* tasks.json at startup: missing, not parsable, or the JSON of a stored list
StoredFiles ==
  {NoFile, [exists |-> TRUE, intact |-> FALSE, data |-> <<>>]}
    \cup {[exists |-> TRUE, intact |-> TRUE, data |-> Stringify(ts)] : ts \in StoredLists}

\* --------------------------------------------------------- specifications
Start(p, P) ==
  \/ \E task \in NewTasks(P) :
       /\ ~createThrows(task.startMinutes, task.endMinutes)
       /\ AddTask(p, task)
  \/ \E id \in Ids : RemoveTaskById(p, id)
  \/ \E id \in Ids, updates \in UpdateSet(P) : EditTask(p, id, updates)
  \/ \E id \in Ids : MarkCompleted(p, id)

\* the caller starts its next call, the ncalls-th of at most cap
Call(cap, P) ==
  /\ instance
  /\ ncalls < cap
  /\ ncalls' = ncalls + 1
  /\ view' = <<>>
  /\ \E p \in Procs : OneAtATime(p) /\ Start(p, P)

\* the caller calls manager.load(), the ncalls-th call of at most cap
CallLoad(cap) ==
  /\ instance
  /\ ncalls < cap
  /\ ncalls' = ncalls + 1
  /\ view' = <<>>
  /\ \E p \in Procs : OneAtATime(p) /\ Load(p)

LoadStep ==
  \E p \in Procs :
    \/ LoadEnsureDir(p)
    \/ LoadReadFile(p)
    \/ LoadReadResolved(p)
    \/ LoadSort(p)
    \/ LoadDone(p)

Step ==
  \E p \in Procs :
    \/ SaveStringify(p)
    \/ SaveOpenTmp(p)
    \/ SaveWriteTmp(p)
    \/ SaveRename(p)
    \/ LogDone(p)

Fail ==
  \E p \in Procs :
    \/ SaveOpenTmpFail(p)
    \/ SaveWriteTmpFail(p)
    \/ SaveRenameFail(p)
    \/ LoadReadFileFail(p)

Observe ==
  /\ \A p \in Procs : Idle(p)
  /\ \E o \in Obs : Subscribe(o) \/ Unsubscribe(o)

\* one caller, one call at a time (load() among the calls), a file system that
\* works, no observers
Next ==
  \/ Tick
  \/ Call(MaxCalls, PlainTexts)
  \/ CallLoad(MaxCalls)
  \/ Step
  \/ LoadStep

Spec == Init /\ [][Next]_vars

\* the same caller in a shorter session that varies every text field
NextEdit ==
  \/ Tick
  \/ Call(EditCalls, RichTexts)
  \/ Step

SpecEdit == Init /\ [][NextEdit]_vars

\* the same caller, who may also call load(), on a file system whose reads,
\* writes and renames may fail
NextFail ==
  \/ Tick
  \/ Call(FailCalls, PlainTexts)
  \/ CallLoad(FailCalls)
  \/ Step
  \/ LoadStep
  \/ Fail

SpecFail == Init /\ [][NextFail]_vars

\* the same caller with observers subscribing and unsubscribing between calls
NextObs ==
  \/ Tick
  \/ Call(ObsCalls, PlainTexts)
  \/ Step
  \/ Observe

SpecObs == Init /\ [][NextObs]_vars

\* what a caller does to the array listTasks() returned and to the tasks in it
CallerMutates ==
  \/ \E i \in 1 .. Len(view) : ViewRemove(i)
  \/ ViewReverse
  \/ \E i \in 1 .. Len(view), v \in Times : ViewSetStart(i, v) \/ ViewSetEnd(i, v)

\* the same caller, who also lists the tasks and changes what listTasks() gave
\* (the caller lets go of the array before the next call of the manager)
NextView ==
  \/ Tick
  \/ Call(ViewCalls, PlainTexts)
  \/ CallLoad(ViewCalls)
  \/ Step
  \/ LoadStep
  \/ ListTasks
  \/ CallerMutates

SpecView == Init /\ [][NextView]_vars

\* the writeFile of '[]' by ensureDir, in a directory where tasks.json is missing
EnsureStep ==
  \E p \in Procs :
    \/ EnsureDirOpen(p)
    \/ EnsureDirWrite(p)

LoadFail ==
  \E p \in Procs :
    \/ EnsureDirOpenFail(p)
    \/ EnsureDirWriteFail(p)
    \/ LoadReadFileFail(p)

\* the start of the process on whatever tasks.json is there
InitLoad ==
  /\ tasks = <<>>
  /\ observers = <<>>
  /\ disk \in {[file |-> f, tmp |-> NoFile] : f \in StoredFiles}
  /\ now = 0
  /\ calls = [p \in Procs |-> IdleCall]
  /\ failures = 0
  /\ ncalls = 0
  /\ view = <<>>
  /\ instance = FALSE

\* getInstance, then the caller's session
NextLoad ==
  \/ Tick
  \/ \E p \in Procs : GetInstance(p)
  \/ LoadStep
  \/ EnsureStep
  \/ LoadFail
  \/ Call(LoadCalls, PlainTexts)
  \/ CallLoad(LoadCalls)
  \/ Step

SpecLoad == InitLoad /\ [][NextLoad]_vars

\* the start of the process in a fresh directory (no tasks.json) or on a
\* tasks.json that holds the empty collection
InitCrash ==
  /\ tasks = <<>>
  /\ observers = <<>>
  /\ disk \in {[file |-> f, tmp |-> NoFile] :
                 f \in {NoFile, [exists |-> TRUE, intact |-> TRUE, data |-> <<>>]}}
  /\ now = 0
  /\ calls = [p \in Procs |-> IdleCall]
  /\ failures = 0
  /\ ncalls = 0
  /\ view = <<>>
  /\ instance = FALSE

\* the caller's session with the process killed at any moment and started
\* again; ensureDir writes tasks.json where it is missing, in the load and,
\* when the load could not create it, in the first save
NextCrash ==
  \/ Tick
  \/ Call(CrashCalls, PlainTexts)
  \/ Step
  \/ EnsureStep
  \/ \E p \in Procs : EnsureDirOpenFail(p)
  \/ Crash
  \/ \E p \in Procs : GetInstance(p)
  \/ LoadStep

SpecCrash == InitCrash /\ [][NextCrash]_vars

\* a caller starts a call while other calls may still be in progress (the call
\* is recorded under FirstProc when no call is recorded there)
CallAny(cap, P) ==
  /\ instance
  /\ ncalls < cap
  /\ ncalls' = ncalls + 1
  /\ view' = <<>>
  /\ \E p \in Procs : (p = FirstProc \/ ~Idle(FirstProc)) /\ Start(p, P)

\* a caller calls manager.load() while other calls may still be in progress
LoadAny(cap) ==
  /\ instance
  /\ ncalls < cap
  /\ ncalls' = ncalls + 1
  /\ view' = <<>>
  /\ \E p \in Procs : (p = FirstProc \/ ~Idle(FirstProc)) /\ Load(p)

Race ==
  \E p \in Procs : SaveRenameMissing(p)

\* callers that do not await one another: the calls interleave at their awaits
NextConc ==
  \/ Tick
  \/ CallAny(ConcCalls, PlainTexts)
  \/ LoadAny(ConcCalls)
  \/ Step
  \/ LoadStep
  \/ Race

SpecConc == Init /\ [][NextConc]_vars

\* a caller that got the instance from getInstance during the load starts a
\* call on it while the load waits for the file system
CallDuringLoad(cap, P) ==
  /\ instance
  /\ ncalls < cap
  /\ ncalls' = ncalls + 1
  /\ view' = <<>>
  /\ \E p \in Procs \ {FirstProc} :
       /\ calls[p].op # "none"
       /\ LoadAwaitsIO(FirstProc)
       /\ Start(p, P)

\* the start of the process with two callers of getInstance, the second of
\* which does not wait for the first
NextStart ==
  \/ Tick
  \/ \E p \in Procs : GetInstance(p)
  \/ \E p \in Procs : GetInstanceDuringLoad(p)
  \/ LoadStep
  \/ EnsureStep
  \/ CallDuringLoad(StartCalls, PlainTexts)
  \/ Call(StartCalls, PlainTexts)
  \/ Step

SpecStart == InitLoad /\ [][NextStart]_vars

\* ================================================================ claims
\* helpers of the claims, written without the model's own operators
Without(seq, k) == [i \in 1 .. Len(seq) - 1 |-> IF i < k THEN seq[i] ELSE seq[i + 1]]

FirstWithId(seq, id) ==
  CHOOSE i \in 1 .. Len(seq) : seq[i].id = id /\ \A j \in 1 .. i - 1 : seq[j].id # id

HasId(seq, id) == \E i \in 1 .. Len(seq) : seq[i].id = id

IntervalsOverlap(a, b) ==
  a.startMinutes < b.endMinutes /\ b.startMinutes < a.endMinutes

\* the step in which caller p starts a call of op
Starts(p, op) == ncalls' = ncalls + 1 /\ calls'[p].op = op /\ calls'[p] # calls[p]

ConflictTexts == {"Task conflicts with existing task", "Edit conflicts with existing task"}

NotFoundTexts == {"Error: Task not found.", "Task not found."}

IsConflict(c) ==
  c.op \in {"addTask", "editTask"} /\ ~c.result.success /\ c.result.message.text \in ConflictTexts

IsNotFound(c) ==
  /\ c.op \in {"removeTaskById", "editTask", "markCompleted"}
  /\ ~c.result.success
  /\ c.result.message.text \in NotFoundTexts

\* the ids of the stored tasks are pairwise different
UniqueIds(seq) == \A i, j \in 1 .. Len(seq) : seq[i].id = seq[j].id => i = j

\* C1: in every reachable state every adjacent pair (A, B) of the in-memory
\* collection satisfies A.endMinutes <= B.startMinutes (stated for the
\* schedules whose ids are pairwise different).
C1_AdjacentNoOverlap ==
  UniqueIds(tasks)
  => \A i \in 1 .. Len(tasks) - 1 : tasks[i].endMinutes <= tasks[i + 1].startMinutes

\* C2: in every reachable state the sequence listTasks() returns is sorted
\* ascending by startMinutes.
C2_ListSorted ==
  \A i, j \in 1 .. Len(listTasks) :
    i < j => listTasks[i].startMinutes <= listTasks[j].startMinutes

\* an edit that moved a task has returned, and three tasks with three
\* different start times are listed
C2_Witness ==
  /\ Len(listTasks) = 3
  /\ listTasks[1].startMinutes < listTasks[2].startMinutes
  /\ listTasks[2].startMinutes < listTasks[3].startMinutes
  /\ calls[FirstProc].op = "editTask"
  /\ calls[FirstProc].pc = "done"
  /\ calls[FirstProc].result.success

\* C3: addTask(task) succeeds if and only if no task already in the schedule
\* overlaps the candidate, the test being made against the whole collection
\* (stated for the schedules whose ids, the candidate's included, all differ).
C3_AddIffNoOverlap ==
  [][\A p \in Procs, task \in NewTasks(PlainTexts) :
       (Starts(p, "addTask") /\ ~createThrows(task.startMinutes, task.endMinutes)
          /\ UniqueIds(tasks) /\ ~HasId(tasks, task.id)
          /\ AddTask(p, task))
       => (calls'[p].result.success
             <=> ~\E i \in 1 .. Len(tasks) : IntervalsOverlap(tasks[i], task))]_vars

\* C4: every step of an addTask or editTask call that reports a conflict, from
\* its start to its return, leaves the in-memory collection and both files as
\* they were; the call never enters Storage.saveTasks.
C4_ConflictLeavesState ==
  [][\A p \in Procs :
       IsConflict(calls'[p])
       => /\ tasks' = tasks
          /\ disk' = disk
          /\ calls'[p].pc \in {"log", "done"}
          /\ ~calls'[p].saved]_vars

\* an editTask call has returned a conflict while two tasks are stored
C4_Witness ==
  /\ calls[FirstProc].op = "editTask"
  /\ IsConflict(calls[FirstProc])
  /\ calls[FirstProc].pc = "done"
  /\ calls[FirstProc].outcome = "returned"
  /\ Len(tasks) = 2

\* C5: editTask(id, updates) on an existing id succeeds if and only if the
\* candidate interval overlaps no task of the schedule other than the one edited
\* (stated for the schedules whose ids are pairwise different).
C5_EditIffNoOtherOverlap ==
  [][\A p \in Procs, u \in UpdateSet(PlainTexts) :
       (Starts(p, "editTask") /\ HasId(tasks, calls'[p].id) /\ UniqueIds(tasks)
          /\ EditTask(p, calls'[p].id, u))
       => LET k == FirstWithId(tasks, calls'[p].id)
              cand == [startMinutes |-> IF u.startMinutes = NoTime
                                        THEN tasks[k].startMinutes ELSE u.startMinutes,
                       endMinutes |-> IF u.endMinutes = NoTime
                                      THEN tasks[k].endMinutes ELSE u.endMinutes]
          IN calls'[p].result.success
               <=> ~\E i \in (1 .. Len(tasks)) \ {k} : IntervalsOverlap(tasks[i], cand)]_vars

\* the updates objects that can have produced the stored task t: each field
\* omitted, or given with t's value
UpdatesGiving(t) ==
  {Updates(title, start, end, priority, description) :
     title \in {Absent, t.title},
     start \in {NoTime, t.startMinutes}, end \in {NoTime, t.endMinutes},
     priority \in {Absent, t.priority},
     description \in {Absent, t.description}}

\* C6: a successful editTask(id, updates) keeps the number of tasks and the set
\* of ids; the edited task keeps id, completed and createdAt and every field
\* updates omits, takes the fields updates gives, and every other task is as it
\* was; no later step of the call changes the collection.
C6_EditFrame ==
  [][/\ \A p \in Procs :
          (Starts(p, "editTask") /\ calls'[p].result.success)
          => /\ HasId(tasks, calls'[p].id)
             /\ Len(tasks') = Len(tasks)
             /\ {tasks'[i].id : i \in 1 .. Len(tasks')} = {tasks[i].id : i \in 1 .. Len(tasks)}
             /\ \A m \in 1 .. Len(tasks') : \A u \in UpdatesGiving(tasks'[m]) :
                  (tasks'[m].id = calls'[p].id /\ EditTask(p, calls'[p].id, u))
                  => LET k == FirstWithId(tasks, calls'[p].id)
                         o == tasks[k]
                         e == [id |-> o.id,
                               title |-> IF u.title = Absent THEN o.title ELSE u.title,
                               description |-> IF u.description = Absent
                                               THEN o.description ELSE u.description,
                               startMinutes |-> IF u.startMinutes = NoTime
                                                THEN o.startMinutes ELSE u.startMinutes,
                               endMinutes |-> IF u.endMinutes = NoTime
                                              THEN o.endMinutes ELSE u.endMinutes,
                               priority |-> IF u.priority = Absent
                                            THEN o.priority ELSE u.priority,
                               completed |-> o.completed,
                               createdAt |-> o.createdAt]
                     IN \E j \in 1 .. Len(tasks') :
                          tasks'[j] = e /\ Without(tasks', j) = Without(tasks, k)
     /\ (ncalls' = ncalls /\ \E p \in Procs : calls[p].op = "editTask") => tasks' = tasks]_vars

\* a successful edit of a completed task has returned: the task was created at
\* an earlier clock value, its id built at a still earlier one, and it has the
\* description "d"
C6_Witness ==
  /\ calls[FirstProc].op = "editTask"
  /\ calls[FirstProc].pc = "done"
  /\ calls[FirstProc].outcome = "returned"
  /\ calls[FirstProc].result.success
  /\ \E i \in 1 .. Len(tasks) :
       /\ tasks[i].id = calls[FirstProc].id
       /\ tasks[i].completed
       /\ tasks[i].createdAt < now
       /\ tasks[i].id[1] < tasks[i].createdAt
       /\ tasks[i].description = "d"

\* C7: a removeTaskById, editTask or markCompleted call on an id that is not in
\* the schedule is a not-found failure; from its start to its return it leaves
\* the collection and the files as they were, never enters Storage.saveTasks,
\* broadcasts nothing and returns; findTaskById gives null for that id.
C7_NotFound ==
  [][\A p \in Procs :
       /\ ((Starts(p, "removeTaskById") \/ Starts(p, "editTask") \/ Starts(p, "markCompleted"))
             /\ ~HasId(tasks, calls'[p].id))
          => IsNotFound(calls'[p]) /\ findTaskById(tasks, calls'[p].id) = Null
       /\ IsNotFound(calls'[p])
          => /\ tasks' = tasks
             /\ disk' = disk
             /\ calls'[p].pc \in {"log", "done"}
             /\ ~calls'[p].saved
             /\ calls'[p].sent = NoMsg
             /\ calls'[p].delivered = <<>>
             /\ calls'[p].note = NoMsg
             /\ calls'[p].pc = "done" => calls'[p].outcome = "returned"]_vars

\* removeTaskById on an unknown id has returned while a task is stored and an
\* observer is subscribed
C7_Witness ==
  /\ calls[FirstProc].op = "removeTaskById"
  /\ IsNotFound(calls[FirstProc])
  /\ calls[FirstProc].pc = "done"
  /\ Len(tasks) >= 1
  /\ Len(observers) >= 1

\* C8: with one call at a time, a call that has returned success has completed
\* its save (the rename), and tasks.json holds the in-memory collection: the
\* same tasks with the same field values in the same order.
C8_SuccessIsDurable ==
  \A p \in Procs :
    (calls[p].pc = "done" /\ calls[p].outcome = "returned" /\ calls[p].result.success)
    => /\ calls[p].saved
       /\ disk.file.intact
       /\ Len(disk.file.data) = Len(tasks)
       /\ \A i \in 1 .. Len(tasks) : fromJSON(disk.file.data[i]) = tasks[i]

\* a call has returned success after an earlier call's save had failed
C8_Witness ==
  /\ calls[FirstProc].pc = "done"
  /\ calls[FirstProc].outcome = "returned"
  /\ calls[FirstProc].result.success
  /\ failures = 1
  /\ Len(tasks) >= 2

\* C9: every call that completes has returned a {success, message} result, and
\* a call that did not complete its save has not returned success.
C9_AlwaysReturnsResult ==
  \A p \in Procs :
    calls[p].pc = "done"
    => /\ calls[p].outcome = "returned"
       /\ (~calls[p].saved => ~calls[p].result.success)

\* C10: in a broadcast every observer of the list has its update invoked, in
\* the order of the list, whichever observers throw; no throw leaves notify, and
\* the call returns the result it had computed.
C10_NotifyIsolated ==
  \A p \in Procs :
    /\ calls[p].sent # NoMsg
       => /\ calls[p].delivered = calls[p].audience
          /\ calls[p].outcome # "thrown"
    /\ calls[p].pc = "done" => calls[p].outcome = "returned"

\* the first of two subscribed observers threw on a broadcast of a call that
\* has returned success
C10_Witness ==
  \E p \in Procs :
    /\ calls[p].pc = "done"
    /\ calls[p].result.success
    /\ Len(calls[p].audience) = 2
    /\ calls[p].audience[1] \in calls[p].threw
    /\ calls[p].audience[2] \notin calls[p].threw

\* the number of times o's update was invoked in a list of deliveries
Count(seq, o) == Cardinality({i \in 1 .. Len(seq) : seq[i] = o})

\* C11: a call that returns success or a conflict has by then delivered exactly
\* one notification to every subscribed listener and none to anyone else; a
\* successful call delivers only once its save has completed, a conflicting call
\* never saves, and a call on an id that is not found delivers nothing.
C11_OneNotificationEach ==
  [][\A p \in Procs :
       LET c == calls'[p]
       IN /\ (c.delivered # <<>> /\ c.delivered # calls[p].delivered /\ c.result.success)
             => c.saved
          /\ IsConflict(c) => ~c.saved
          /\ (c.pc = "done" /\ c # calls[p] /\ c.outcome = "returned")
             => \A o \in Obs :
                  Count(c.delivered, o) =
                    IF (c.result.success \/ IsConflict(c)) /\ o \in Range(observers)
                    THEN 1 ELSE 0]_vars

\* C12: in every reachable state every stored task has endMinutes > startMinutes.
C12_PositiveDuration ==
  \A i \in 1 .. Len(tasks) : tasks[i].endMinutes > tasks[i].startMinutes

\* C13: nothing a caller does to the array listTasks() returned, or to the
\* tasks in it, changes what listTasks() returns afterwards.
C13_ListIsIndependent ==
  [][CallerMutates => listTasks' = listTasks]_vars

\* C14: markCompleted(id) on an existing id, whether or not the task is already
\* completed, is a success that sets completed of the task with that id and
\* changes nothing else: every task keeps its position and its other fields, the
\* collection its length; the rest of the call changes neither the collection
\* nor the result.
C14_MarkCompletedIdempotent ==
  [][\A p \in Procs :
       /\ (Starts(p, "markCompleted") /\ HasId(tasks, calls'[p].id))
          => LET k == FirstWithId(tasks, calls'[p].id)
             IN /\ calls'[p].result.success
                /\ Len(tasks') = Len(tasks)
                /\ tasks'[k].completed
                /\ \A i \in 1 .. Len(tasks) :
                     /\ i # k => tasks'[i] = tasks[i]
                     /\ [tasks'[i] EXCEPT !.completed = FALSE]
                          = [tasks[i] EXCEPT !.completed = FALSE]
       /\ (ncalls' = ncalls /\ calls[p].op = "markCompleted" /\ calls'[p] # calls[p])
          => /\ tasks' = tasks
             /\ calls'[p].result = calls[p].result
             /\ calls'[p].outcome # "thrown"]_vars

\* a markCompleted call has succeeded on a task that tasks.json already holds
\* as completed, saved by an earlier markCompleted
C14_Witness ==
  \E p \in Procs :
    /\ calls[p].op = "markCompleted"
    /\ calls[p].pc = "stringify"
    /\ calls[p].result.success
    /\ \E i \in 1 .. Len(disk.file.data) :
         disk.file.data[i].id = calls[p].id /\ disk.file.data[i].completed
    /\ \E i \in 1 .. Len(tasks) : tasks[i].id = calls[p].id /\ tasks[i].completed

\* C15: in every reachable state no two tasks of the schedule have the same id.
C15_IdsUnique ==
  \A i, j \in 1 .. Len(tasks) : i # j => tasks[i].id # tasks[j].id

\* C16: when getInstance has returned from the initial load (and no operation
\* of the manager has been called yet), or a call of load() by the one caller
\* has returned, it has returned normally and the in-memory collection is
\* sorted ascending by startMinutes; it holds each task of a readable
\* tasks.json exactly as often as the file does (a permutation), and is empty
\* when the file is missing or does not parse or a file-system step of the
\* load failed.
C16_LoadSortsOrEmpties ==
  \A p \in Procs :
    \/ calls[p].op = "getInstance" /\ calls[p].pc = "done" /\ ncalls = 0
    \/ calls[p].op = "load" /\ calls[p].pc = "done"
    => /\ calls[p].outcome = "returned"
       /\ \A i, j \in 1 .. Len(tasks) :
            i < j => tasks[i].startMinutes <= tasks[j].startMinutes
       /\ IF /\ disk.file.exists
             /\ disk.file.intact
             /\ IF calls[p].op = "load" THEN ~calls[p].caught ELSE failures = 0
          THEN /\ Len(tasks) = Len(disk.file.data)
               /\ \A t \in StoredTasks :
                    Count(tasks, t) = Count(disk.file.data, toJSON(t))
          ELSE tasks = <<>>

\* getInstance has returned after loading two stored tasks that tasks.json
\* holds in descending order of startMinutes
C16_Witness ==
  \E p \in Procs :
    /\ calls[p].op = "getInstance"
    /\ calls[p].pc = "done"
    /\ ncalls = 0
    /\ Len(disk.file.data) = 2
    /\ disk.file.data[1].startMinutes > disk.file.data[2].startMinutes
    /\ Len(tasks) = 2

\* C17: with the process killed at any moment, tasks.json, once it is there,
\* is at every moment a complete text (never a partial or corrupt one), and it
\* changes only in the rename of a completely written tasks.json.tmp, to the
\* collection the saving call has in memory.
C17_AtomicSave ==
  [][/\ disk'.file.exists => disk'.file.intact
     /\ disk'.file # disk.file
        => \E p \in Procs :
             /\ calls[p].pc = "rename"
             /\ calls'[p].saved
             /\ disk.tmp = [exists |-> TRUE, intact |-> TRUE, data |-> calls[p].data]
             /\ disk'.file.data = Stringify(tasks)]_vars

\* C18: for every id, while the number of stored tasks with that id stays the
\* same (the tasks stay in the schedule), the number of them that are completed
\* grows only in the step in which a markCompleted on that id sets the flag,
\* and it never falls: completed does not return from true to false, whatever
\* the operations and their outcomes (editTask carries the flag over).
C18_CompletedOnlyByMark ==
  [][\A id \in Ids :
       LET with(ts) == {i \in 1 .. Len(ts) : ts[i].id = id}
           done(ts) == {i \in with(ts) : ts[i].completed}
       IN /\ (/\ Cardinality(with(tasks')) = Cardinality(with(tasks))
               /\ Cardinality(done(tasks')) > Cardinality(done(tasks)))
             => \E p \in Procs :
                  /\ Starts(p, "markCompleted")
                  /\ calls'[p].id = id
          /\ Cardinality(done(tasks')) < Cardinality(done(tasks))
             => Cardinality(with(tasks')) < Cardinality(with(tasks))]_vars

\* C19: with calls in flight at once, in every step the in-memory collection
\* stays sorted by startMinutes and free of overlaps (every adjacent pair (A, B)
\* has A.endMinutes <= B.startMinutes; stated for the schedules whose ids are
\* pairwise different), and it changes only in the step that starts a call,
\* where that call reads, checks and commits at once.
C19_ConcurrentCallsKeepOrder ==
  [][/\ UniqueIds(tasks')
        => \A i \in 1 .. Len(tasks') - 1 :
             /\ tasks'[i].startMinutes <= tasks'[i + 1].startMinutes
             /\ tasks'[i].endMinutes <= tasks'[i + 1].startMinutes
     /\ ncalls' = ncalls => tasks' = tasks]_vars

\* C20: when every call that was started has finished, each call that changed
\* the in-memory collection has returned success, and tasks.json holds the
\* in-memory collection: the same tasks, field values and order (stated for the
\* schedules whose ids are pairwise different).
C20_ConcurrentSavesAgree ==
  (UniqueIds(tasks) /\ \A p \in Procs : Idle(p))
  => /\ \A p \in Procs :
          (calls[p].pc = "done" /\ calls[p].result.success)
          => calls[p].outcome = "returned"
     /\ disk.file.exists
     /\ disk.file.intact
     /\ Len(disk.file.data) = Len(tasks)
     /\ \A i \in 1 .. Len(tasks) : fromJSON(disk.file.data[i]) = tasks[i]


\* C21: every caller of getInstance, also one that calls while an earlier
\* getInstance still awaits the initial load, gets the instance only when load
\* has assigned the loaded collection; load starts only when there is no
\* instance yet (it runs once), and the assignment of load never replaces a
\* collection that holds an added task.
C21_InstanceAfterLoad ==
  [][/\ \A p \in Procs :
          (calls'[p].op = "getInstance" /\ calls'[p].outcome = "returned")
            => \A q \in Procs : calls'[q].op = "getInstance"
                                   => calls'[q].pc \notin {"ensureDir", "ensureOpen", "ensureWrite",
                                                            "readFile", "readDone", "sort"}
     /\ \A p \in Procs :
          (calls[p].pc \in {"idle", "done"} /\ calls'[p].pc \in {"ensureDir", "ensureOpen"})
            => ~instance
     /\ \A p \in Procs :
          (calls[p].pc = "sort" /\ calls'[p].pc = "loaded") => tasks = <<>>]_vars

====
